---- MODULE Spec2Model ----
(***************************************************************************)
(* Model of mkova.py: OVAFile.write and the stream-optimized VMDK          *)
(* transcoder stream_optimize_vmdk.                                        *)
(*                                                                         *)
(* The source file is a record (header fields, grain directory, grain      *)
(* tables by sector offset, grain contents by sector offset, size).  The   *)
(* output file is the sequence of the writes made to it, each with the     *)
(* byte position (outf.tell()) at which it was made and its byte length.   *)
(* Byte positions and lengths are kept exactly; the contents of a grain    *)
(* are an abstract value ("A", "B", ...) and zlib is an invertible tag     *)
(* with a content-dependent compressed length.                             *)
(***************************************************************************)
EXTENDS Integers, Sequences, FiniteSets, TLC

VARIABLES
    src,                \* the source VMDK file (never written)
    newsize,            \* OVAFile.__disksize, the -d argument (GiB)
    pc,                 \* position in OVAFile.write / stream_optimize_vmdk
    ovfSize,            \* ovf:size written into References/File (-1: no OVF yet)
    tmpOvf,             \* the temporary OVF file exists
    tmpVmdk,            \* the temporary transcoded VMDK file exists
    new_header_fields,  \* the header fields packed into the output
    sectors,            \* capacity of the source (line 90)
    newGTs,             \* number of grain tables of the resized disk
    gts,                \* in-memory grain tables (mutated in place)
    gtIdx,              \* index of the next grain table of the loop at 154
    inPtr,              \* virtual input pointer
    newGrainDirectory,  \* the grain directory under construction
    out,                \* the writes made to outf, in order
    outPos,             \* outf.tell()
    ova                 \* members of the tar archive, in order

vars == <<src, newsize, pc, ovfSize, tmpOvf, tmpVmdk, new_header_fields,
          sectors, newGTs, gts, gtIdx, inPtr, newGrainDirectory, out, outPos,
          ova>>

----------------------------------------------------------------------------
(* Program constants *)

SECTOR_SIZE == 512

MARKER_EOS == 0

MARKER_GT == 1

MARKER_GD == 2

MARKER_FOOTER == 3

\* struct sizes: "=IIIQQQQIQQQBccccH433B", "=QII496B", "=QI", "I"
HEADER_LEN == 512

MARKER_LEN == 512

GRAIN_MARKER_LEN == 12

GTE_LEN == 4

\* len(IMAGE_DESCRIPTOR_TEMPLATE)
TEMPLATE_LEN == 388

----------------------------------------------------------------------------
(* Bounds of the model *)

\* at most this many grain tables in the source
MaxSrcGTs == 2

\* at most this many non-zero grain table entries in the source
MaxNonZero == 2

\* numGTEsPerGT of the source header: 2 (a GT of 8 bytes, not sector
\* sized) and 128 (a GT of exactly one sector)
NumGTEsChoices == {2, 128}

\* grainSize of the source header, in sectors
GrainSizeChoices == {1048576}

\* 0x564D444B, the bytes "KDMV" read as a little-endian 32-bit integer:
\* the magic number of a sparse header
VMDK_MAGIC == 86 * 16777216 + 77 * 65536 + 68 * 256 + 75

\* magicNumber of the source header
MagicChoices == {VMDK_MAGIC, 0}

\* the -d argument, GiB
NewSizeChoices == {1, 130}

\* what a source grain table entry holds: "0" a GTE of 0, "1" a GTE of 1,
\* "A" and "B" a present grain with that content
EntryKinds == {"0", "1", "A", "B"}

NonZeroKinds == EntryKinds \ {"0"}

\* the entries of a grain table that may be non-zero: the first and the
\* last
PopIdx(n) == {1, n}

----------------------------------------------------------------------------
(* Arithmetic helpers *)

\* math.ceil(a / b) for a >= 0, b > 0
CeilDiv(a, b) == (a + b - 1) \div b

\* the low and the high 32-bit word of a 64-bit field
Lo32(x) == (x % 65536) + 65536 * ((x \div 65536) % 65536)

Hi32(x) == (x \div 65536) \div 65536

RECURSIVE Digits(_)
\* len(str(x)) for an integer x >= 0
Digits(x) == IF x < 10 THEN 1 ELSE 1 + Digits(x \div 10)

Zeros(k) == [j \in 1..k |-> 0]

\* length of pad_to_sector(b) for len(b) = l
pad_to_sector(l) ==
    LET nsect == CeilDiv(l, SECTOR_SIZE)
        padding == nsect * SECTOR_SIZE - l
    IN  IF padding # 0 THEN l + padding ELSE l

----------------------------------------------------------------------------
(* The source file *)

\* sector offsets of the monolithic-sparse source: header, descriptor,
\* grain directory (one sector), grain tables (one sector each), grains
SrcLayout == [descriptorOffset |-> 1, descriptorSize |-> 20]

SrcGdOffset == SrcLayout.descriptorOffset + SrcLayout.descriptorSize

SrcGtOffset(t) == SrcGdOffset + t

SrcOverHead(T) == SrcGdOffset + 1 + T

IsPresent(kind) == kind \in {"A", "B"}

\* the present grains of the source, as <<grain table, entry>> pairs
PresentSet(T, n, ent) ==
    {te \in (1..T) \X PopIdx(n) : IsPresent(ent[te[1]][te[2]])}

\* grains are allocated in the file in the order of their addresses
Rank(T, n, ent, t, p) ==
    Cardinality({te \in PresentSet(T, n, ent) :
                    te[1] < t \/ (te[1] = t /\ te[2] < p)})

SrcGrainOffset(T, n, g, ent, t, p) ==
    SrcOverHead(T) + Rank(T, n, ent, t, p) * g

SrcGTE(T, n, g, ent, t, p) ==
    CASE ent[t][p] = "0" -> 0
      [] ent[t][p] = "1" -> 1
      [] OTHER -> SrcGrainOffset(T, n, g, ent, t, p)

\* a source of T grain tables of n entries, grains of g sectors; the grain
\* tables in absent have a grain directory entry of 0.  gtAt gives, for the
\* sector offset of a grain table, its entries at PopIdx; all its other
\* entries are 0
SrcFile(magic, T, n, g, absent, ent) ==
    [hdr |-> [magicNumber |-> magic, version |-> 1, flags |-> 3,
              capacity |-> T * n * g, grainSize |-> g,
              descriptorOffset |-> SrcLayout.descriptorOffset,
              descriptorSize |-> SrcLayout.descriptorSize,
              numGTEsPerGT |-> n, rgdOffset |-> 0,
              gdOffset |-> SrcGdOffset, overHead |-> SrcOverHead(T),
              uncleanShutdown |-> 0, compressAlgorithm |-> 0],
     gdes |-> [t \in 1..T |-> IF t \in absent THEN 0 ELSE SrcGtOffset(t)],
     gtAt |-> [o \in {SrcGtOffset(t) : t \in (1..T) \ absent} |->
                 LET t == o - SrcGdOffset
                 IN  [p \in PopIdx(n) |-> SrcGTE(T, n, g, ent, t, p)]],
     grains |-> [o \in {SrcGrainOffset(T, n, g, ent, te[1], te[2]) :
                            te \in PresentSet(T, n, ent)} |->
                   LET te == CHOOSE x \in PresentSet(T, n, ent) :
                                 SrcGrainOffset(T, n, g, ent, x[1], x[2]) = o
                   IN  ent[te[1]][te[2]]],
     size |-> SrcOverHead(T) + Cardinality(PresentSet(T, n, ent)) * g]

\* the sets of entries that are not 0 in a source of T grain tables
PopulatedSets(T, n) ==
    {P \in SUBSET ((1..T) \X PopIdx(n)) : Cardinality(P) <= MaxNonZero}

\* the grain tables with no entry in P: each is either in the source
\* directory, all zero, or absent from it
ZeroTables(T, P) == {t \in 1..T : \A te \in P : te[1] # t}

\* the entries of the grain tables, given what the entries in P hold
Entries(T, n, P, kinds) ==
    [t \in 1..T |-> [p \in PopIdx(n) |->
        IF <<t, p>> \in P THEN kinds[<<t, p>>] ELSE "0"]]

\* the first 128 32-bit words of the file: the packed SparseHeader
\* "=IIIQQQQIQQQBccccH433B", little-endian
HeaderWords(h) ==
    << h.magicNumber, h.version, h.flags,
       Lo32(h.capacity), Hi32(h.capacity),
       Lo32(h.grainSize), Hi32(h.grainSize),
       Lo32(h.descriptorOffset), Hi32(h.descriptorOffset),
       Lo32(h.descriptorSize), Hi32(h.descriptorSize),
       h.numGTEsPerGT,
       Lo32(h.rgdOffset), Hi32(h.rgdOffset),
       Lo32(h.gdOffset), Hi32(h.gdOffset),
       Lo32(h.overHead), Hi32(h.overHead),
       h.uncleanShutdown + 10 * 256 + 32 * 65536 + 13 * 16777216,
       10 + h.compressAlgorithm * 256 >> \o Zeros(108)

\* entry p of the grain table stored at sector gt_offset of the source
SrcEntry(s, gt_offset, p) ==
    IF p \in DOMAIN s.gtAt[gt_offset] THEN s.gtAt[gt_offset][p] ELSE 0

\* inf.seek(gt_offset * SECTOR_SIZE); inf.read(numGTEsPerGT * 4), unpacked:
\* the code reads a table for every directory entry, a zero one included,
\* and at offset 0 the file holds the header
ReadGT(s, gt_offset) ==
    IF gt_offset = 0
    THEN SubSeq(HeaderWords(s.hdr), 1, s.hdr.numGTEsPerGT)
    ELSE [p \in 1..s.hdr.numGTEsPerGT |-> SrcEntry(s, gt_offset, p)]

\* inf.seek(offset * SECTOR_SIZE); inf.read(grainSize * SECTOR_SIZE):
\* the content of the grain stored there, nothing past the end of the
\* file, other bytes of the file elsewhere
ReadGrain(s, offset) ==
    IF offset \in DOMAIN s.grains THEN s.grains[offset]
    ELSE IF offset >= s.size THEN ""
    ELSE "raw"

\* zlib.compress, an invertible function
Compress(data) == <<"zlib", data>>

Decompress(z) == z[2]

\* len(zlib.compress(data)): empty input, a compressible grain, an
\* incompressible grain, other bytes
ZLen(data) ==
    CASE data = "" -> 8
      [] data = "A" -> 84
      [] data = "B" -> 65562
      [] OTHER -> 300

----------------------------------------------------------------------------
(* The output file *)

\* one write to outf: kind is "header", "descriptor", "pad", "grain",
\* "marker", "gt", "gd" or "footer"; pos is outf.tell() before the write and
\* len the number of bytes written; t and i are the source grain table and
\* entry the write was made for (0: none); val, size and type are the
\* fields of a marker (type -1: a grain marker, which has none); body is
\* what follows (header fields, compressed data, table entries)
OutRec(kind, pos, len, t, i, val, size, type, body) ==
    [kind |-> kind, pos |-> pos, len |-> len, t |-> t, i |-> i,
     val |-> val, size |-> size, type |-> type, body |-> body]

\* create_marker: the fields packed by "=QII496B"
create_marker(marker_type, nsectors, size) ==
    [val |-> nsectors, size |-> size, type |-> marker_type]

MarkerRec(pos, t, m) ==
    OutRec("marker", pos, MARKER_LEN, t, 0, m.val, m.size, m.type, <<>>)

\* struct.pack("=QI", inPtr, len(compressedGrainData)) + compressedGrainData,
\* padded to a sector
GrainRec(pos, t, i, lba, data) ==
    OutRec("grain", pos, pad_to_sector(GRAIN_MARKER_LEN + ZLen(data)),
           t, i, lba, ZLen(data), -1, Compress(data))

\* the writes that are markers of the stream: grain markers and control
\* markers
IsMarker(r) == r.kind \in {"grain", "marker"}

----------------------------------------------------------------------------
(* stream_optimize_vmdk: header, resizing *)

\* capacity = ceil(newsize*1024*1024*1024/SECTOR_SIZE), in sectors
\* (1024*1024*1024 is a multiple of SECTOR_SIZE: the division is exact)
RequestedSectors(size) == size * ((1024 * 1024 * 1024) \div SECTOR_SIZE)

SectorsInGT(h) == h.grainSize * h.numGTEsPerGT

\* newGTs = ceil(capacity/sectorsInGT)
NewGTs(h, size) == CeilDiv(RequestedSectors(size), SectorsInGT(h))

\* the overridden header values; the magic number, the offsets and the
\* grain geometry are copied from the source as they are
NewHeaderFields(h, size) ==
    [h EXCEPT !.version = 3, !.rgdOffset = 0, !.flags = 196609,
              !.compressAlgorithm = 1,
              !.capacity = NewGTs(h, size) * SectorsInGT(h)]

\* totalGrains = ceil(sectors/grainSize); totalGTs = ceil(totalGrains/numGTEsPerGT)
TotalGTs(h) == CeilDiv(CeilDiv(h.capacity, h.grainSize), h.numGTEsPerGT)

\* the grain tables loaded from the source, one per directory entry
LoadGTs(s) ==
    [t \in 1..TotalGTs(s.hdr) |-> ReadGT(s, s.gdes[t])]

\* len of the rendered descriptor: the template with #CID# (8 hex digits),
\* #longCID# (32), #SECTORS# (twice) and #CYLINDERS# replaced.  cylinders
\* is a float; its repr is taken at its longest, 16 digits after the
\* integer part and the point
DescriptorLen(capacity) ==
    LET cylinders == (capacity + (63 * 255) - 1) \div (63 * 255)
    IN  TEMPLATE_LEN + (8 - 5) + (32 - 9) + 2 * (Digits(capacity) - 9)
            + (Digits(cylinders) + 17 - 11)

\* the writes of lines 139-143: sparse header, descriptor, zero padding up
\* to overHead sectors
Prologue(fields) ==
    LET hdrRec == OutRec("header", 0, HEADER_LEN, 0, 0, 0, 0, -1, fields)
        dlen == pad_to_sector(DescriptorLen(fields.capacity))
        descRec == OutRec("descriptor", HEADER_LEN, dlen, 0, 0, 0, 0, -1, <<>>)
        tell == HEADER_LEN + dlen
        padlen == fields.overHead * SECTOR_SIZE - tell
    IN  IF padlen > 0
        THEN <<hdrRec, descRec,
               OutRec("pad", tell, padlen, 0, 0, 0, 0, -1, <<>>)>>
        ELSE <<hdrRec, descRec>>

\* outf.tell() after a sequence of writes starting at 0
TellAfter(recs) ==
    IF recs = <<>> THEN 0 ELSE recs[Len(recs)].pos + recs[Len(recs)].len

----------------------------------------------------------------------------
(* stream_optimize_vmdk: the loop over the grain tables *)

\* emptyGT = [0] * numGTEsPerGT
emptyGT(h) == Zeros(h.numGTEsPerGT)

\* a skipped grain table moving the input pointer by one grain only
EmptyGTAdvanceOneGrain(h) == h.grainSize

\* inPtr += numGTEsPerGT * grainSize, for a grain table skipped as a whole
EmptyGTAdvance(h) == h.numGTEsPerGT * h.grainSize

\* the offset of the sector after the one the grain marker starts in
GrainOffsetPastMarker(tell) == tell \div SECTOR_SIZE + 1

\* the byte position recorded as it is, not divided by the sector size
GrainOffsetInBytes(tell) == tell

\* gt[i] = int(outf.tell() / SECTOR_SIZE)
GrainOffset(tell) == tell \div SECTOR_SIZE

\* lines 170-174 for the entries from..to-1 of a table, all of them <= 1:
\* each is set to 0 and moves the input pointer by one grain
SkipAbsent(s, st, to) ==
    [st EXCEPT !.gt = [j \in 1..Len(st.gt) |->
                          IF j >= st.i /\ j < to THEN 0 ELSE st.gt[j]],
               !.ptr = @ + (to - st.i) * s.hdr.grainSize,
               !.i = to]

RECURSIVE TranscodeGTEs(_, _, _)
RECURSIVE WriteGrain(_, _, _)
\* the loop of lines 167-197 over the entries of grain table t, from entry
\* st.i on; the entries <= 1 up to the next present one are taken in one
\* step.  st.gt is the table (rewritten in place), st.tell the output
\* position, st.ptr the input pointer, st.recs the writes made, st.ok
\* FALSE once the alignment check of line 183 has raised
TranscodeGTEs(s, t, st) ==
    LET present == {j \in st.i..Len(st.gt) : st.gt[j] > 1} IN
    IF present = {} THEN SkipAbsent(s, st, Len(st.gt) + 1)
    ELSE LET k == CHOOSE j \in present : \A m \in present : j <= m
         IN  WriteGrain(s, t, SkipAbsent(s, st, k))

\* lines 176-197 for the present entry at.i: the grain is read and
\* compressed, the position checked and recorded, the grain marker and
\* the data written; then the loop goes on
WriteGrain(s, t, at) ==
    LET grainData == ReadGrain(s, at.gt[at.i])
        rec == GrainRec(at.tell, t, at.i, at.ptr, grainData)
    IN  IF at.tell % SECTOR_SIZE # 0
        THEN [at EXCEPT !.ok = FALSE]
        ELSE TranscodeGTEs(s, t,
                 [at EXCEPT !.gt[at.i] = GrainOffset(at.tell),
                            !.recs = Append(@, rec),
                            !.tell = @ + rec.len,
                            !.ptr = @ + s.hdr.grainSize,
                            !.i = @ + 1])

\* lines 199-215, after the entries of grain table t: the position is
\* checked, the GT marker and the table are written.  gde is the new
\* directory entry
WriteGT(s, t, st) ==
    LET gt_marker == create_marker(MARKER_GT,
                                   (Len(st.gt) * GTE_LEN) \div SECTOR_SIZE, 0)
        pos == st.tell + MARKER_LEN
        gtRec == OutRec("gt", pos, s.hdr.numGTEsPerGT * GTE_LEN, t, 0, 0, 0,
                        -1, st.gt)
    IN  IF ~st.ok \/ st.tell % SECTOR_SIZE # 0
        THEN [ok |-> FALSE, gt |-> st.gt, tell |-> st.tell, ptr |-> st.ptr,
              recs |-> st.recs, gde |-> 0]
        ELSE IF pos % SECTOR_SIZE # 0
        THEN [ok |-> FALSE, gt |-> st.gt, tell |-> pos, ptr |-> st.ptr,
              recs |-> Append(st.recs, MarkerRec(st.tell, t, gt_marker)),
              gde |-> 0]
        ELSE [ok |-> TRUE, gt |-> st.gt, tell |-> pos + gtRec.len,
              ptr |-> st.ptr,
              recs |-> st.recs \o <<MarkerRec(st.tell, t, gt_marker), gtRec>>,
              gde |-> pos \div SECTOR_SIZE]

\* lines 163-215 for a grain table that is not empty
TranscodeGT(s, t, gt, tell, ptr) ==
    WriteGT(s, t, TranscodeGTEs(s, t, [i |-> 1, gt |-> gt, tell |-> tell,
                                       ptr |-> ptr, recs |-> <<>>,
                                       ok |-> TRUE]))

----------------------------------------------------------------------------
(* stream_optimize_vmdk: directory and footer *)

\* newGrainDirectory += [0] * paddingGTs when paddingGTs > 0
PadDirectory(dir, n) ==
    IF n - Len(dir) > 0 THEN dir \o Zeros(n - Len(dir)) ELSE dir

\* the new directory offset stored one field early, in rgdOffset
FooterFieldsWrongIndex(fields, gdOffset) == [fields EXCEPT !.rgdOffset = gdOffset]

\* new_header_fields[9] = gdOffset
FooterFields(fields, gdOffset) == [fields EXCEPT !.gdOffset = gdOffset]

----------------------------------------------------------------------------
(* Initial state: OVAFile constructed on a source file, write not begun *)

Init ==
    /\ \E T \in 1..MaxSrcGTs, n \in NumGTEsChoices, magic \in MagicChoices,
          g \in GrainSizeChoices :
         \E P \in PopulatedSets(T, n) :
           \E kinds \in [P -> NonZeroKinds], absent \in SUBSET ZeroTables(T, P) :
             src = SrcFile(magic, T, n, g, absent, Entries(T, n, P, kinds))
    /\ newsize \in NewSizeChoices
    /\ pc = "start"
    /\ ovfSize = -1
    /\ tmpOvf = FALSE
    /\ tmpVmdk = FALSE
    /\ new_header_fields = <<>>
    /\ sectors = 0
    /\ newGTs = 0
    /\ gts = <<>>
    /\ gtIdx = 1
    /\ inPtr = 0
    /\ newGrainDirectory = <<>>
    /\ out = <<>>
    /\ outPos = 0
    /\ ova = <<>>

transcoderVars == <<new_header_fields, sectors, newGTs, gts, gtIdx, inPtr,
                    newGrainDirectory, out, outPos>>

----------------------------------------------------------------------------
(* OVAFile.write, before the transcode *)

\* ovf = self.__generate_ovf(): the size attribute of References/File is
\* os.path.getsize(self.__vmdk), the size of the source file
GenerateOvf ==
    /\ pc = "start"
    /\ ovfSize' = src.size * SECTOR_SIZE
    /\ pc' = "ovf"
    /\ UNCHANGED <<src, newsize, tmpOvf, tmpVmdk, transcoderVars, ova>>

\* the archive is created and the OVF written to a temporary file
\* (delete=False)
WriteOvfTemp ==
    /\ pc = "ovf"
    /\ tmpOvf' = TRUE
    /\ pc' = "ovf_temp"
    /\ UNCHANGED <<src, newsize, ovfSize, tmpVmdk, transcoderVars, ova>>

\* the source is opened and the temporary output file created
\* (delete=False)
OpenStreams ==
    /\ pc = "ovf_temp"
    /\ tmpVmdk' = TRUE
    /\ pc' = "parse"
    /\ UNCHANGED <<src, newsize, ovfSize, tmpOvf, transcoderVars, ova>>

----------------------------------------------------------------------------
(* stream_optimize_vmdk *)

\* lines 81-108: the header is unpacked and the new header fields are
\* computed; no field is validated
ParseHeader ==
    /\ pc = "parse"
    /\ sectors' = src.hdr.capacity
    /\ newGTs' = NewGTs(src.hdr, newsize)
    /\ new_header_fields' = NewHeaderFields(src.hdr, newsize)
    /\ pc' = "load"
    /\ UNCHANGED <<src, newsize, ovfSize, tmpOvf, tmpVmdk, gts, gtIdx, inPtr,
                   newGrainDirectory, out, outPos, ova>>

\* lines 110-121: the grain directory and every grain table are loaded
LoadTables ==
    /\ pc = "load"
    /\ gts' = LoadGTs(src)
    /\ pc' = "prologue"
    /\ UNCHANGED <<src, newsize, ovfSize, tmpOvf, tmpVmdk, new_header_fields,
                   sectors, newGTs, gtIdx, inPtr, newGrainDirectory, out,
                   outPos, ova>>

\* lines 123-151: header, descriptor and padding are written
WritePrologue ==
    /\ pc = "prologue"
    /\ out' = Prologue(new_header_fields)
    /\ outPos' = TellAfter(Prologue(new_header_fields))
    /\ newGrainDirectory' = <<>>
    /\ inPtr' = 0
    /\ gtIdx' = 1
    /\ pc' = "gt_loop"
    /\ UNCHANGED <<src, newsize, ovfSize, tmpOvf, tmpVmdk, new_header_fields,
                   sectors, newGTs, gts, ova>>

\* lines 157-161: an all-zero grain table is skipped
SkipEmptyGT ==
    /\ pc = "gt_loop"
    /\ gtIdx <= Len(gts)
    /\ gts[gtIdx] = emptyGT(src.hdr)
    /\ newGrainDirectory' = Append(newGrainDirectory, 0)
    /\ inPtr' = inPtr + EmptyGTAdvance(src.hdr)
    /\ gtIdx' = gtIdx + 1
    /\ UNCHANGED <<src, newsize, pc, ovfSize, tmpOvf, tmpVmdk,
                   new_header_fields, sectors, newGTs, gts, out, outPos, ova>>

\* lines 163-215: the grains of a grain table are compressed and written,
\* then its marker and the table itself
ProcessGT ==
    /\ pc = "gt_loop"
    /\ gtIdx <= Len(gts)
    /\ gts[gtIdx] # emptyGT(src.hdr)
    /\ \E r \in {TranscodeGT(src, gtIdx, gts[gtIdx], outPos, inPtr)} :
        /\ r.ok
        /\ gts' = [gts EXCEPT ![gtIdx] = r.gt]
        /\ out' = out \o r.recs
        /\ outPos' = r.tell
        /\ inPtr' = r.ptr
        /\ newGrainDirectory' = Append(newGrainDirectory, r.gde)
    /\ gtIdx' = gtIdx + 1
    /\ UNCHANGED <<src, newsize, pc, ovfSize, tmpOvf, tmpVmdk,
                   new_header_fields, sectors, newGTs, ova>>

\* lines 183-184, 200-201, 208-209: the output position is not sector
\* aligned and the transcode raises; the exception leaves OVAFile.write
ProcessGTMisaligned ==
    /\ pc = "gt_loop"
    /\ gtIdx <= Len(gts)
    /\ gts[gtIdx] # emptyGT(src.hdr)
    /\ \E r \in {TranscodeGT(src, gtIdx, gts[gtIdx], outPos, inPtr)} :
        /\ ~r.ok
        /\ gts' = [gts EXCEPT ![gtIdx] = r.gt]
        /\ out' = out \o r.recs
        /\ outPos' = r.tell
        /\ inPtr' = r.ptr
    /\ pc' = "failed"
    /\ UNCHANGED <<src, newsize, ovfSize, tmpOvf, tmpVmdk, new_header_fields,
                   sectors, newGTs, gtIdx, newGrainDirectory, ova>>

\* lines 218-241: the directory is padded and packed, the GD marker is
\* written, then the position is checked and the directory written
WriteGD ==
    /\ pc = "gt_loop"
    /\ gtIdx > Len(gts)
    /\ LET dir == PadDirectory(newGrainDirectory, newGTs)
           gdLen == pad_to_sector(Len(dir) * GTE_LEN)
           directory_marker == create_marker(MARKER_GD, gdLen \div SECTOR_SIZE, 0)
           pos == outPos + MARKER_LEN
       IN  /\ pos % SECTOR_SIZE = 0
           /\ newGrainDirectory' = dir
           /\ out' = out \o <<MarkerRec(outPos, 0, directory_marker),
                              OutRec("gd", pos, gdLen, 0, 0, 0, 0, -1, dir)>>
           /\ outPos' = pos + gdLen
    /\ pc' = "footer"
    /\ UNCHANGED <<src, newsize, ovfSize, tmpOvf, tmpVmdk, new_header_fields,
                   sectors, newGTs, gts, gtIdx, inPtr, ova>>

\* lines 229-237: the GD marker has been written when the check of the
\* position raises
WriteGDMisaligned ==
    /\ pc = "gt_loop"
    /\ gtIdx > Len(gts)
    /\ LET dir == PadDirectory(newGrainDirectory, newGTs)
           gdLen == pad_to_sector(Len(dir) * GTE_LEN)
           directory_marker == create_marker(MARKER_GD, gdLen \div SECTOR_SIZE, 0)
           pos == outPos + MARKER_LEN
       IN  /\ pos % SECTOR_SIZE # 0
           /\ newGrainDirectory' = dir
           /\ out' = Append(out, MarkerRec(outPos, 0, directory_marker))
           /\ outPos' = pos
    /\ pc' = "failed"
    /\ UNCHANGED <<src, newsize, ovfSize, tmpOvf, tmpVmdk, new_header_fields,
                   sectors, newGTs, gts, gtIdx, inPtr, ova>>

\* the sector offset of the grain directory in the output: the position
\* after the GD marker (lines 235-238)
gdOffset == LET k == CHOOSE j \in 1..Len(out) : out[j].kind = "gd"
            IN  out[k].pos \div SECTOR_SIZE

\* lines 243-252: footer marker, footer header, end-of-stream marker
WriteFooter ==
    /\ pc = "footer"
    /\ new_header_fields' = FooterFields(new_header_fields, gdOffset)
    /\ out' = out \o
         <<MarkerRec(outPos, 0, create_marker(MARKER_FOOTER, 1, 0)),
           OutRec("footer", outPos + MARKER_LEN, HEADER_LEN, 0, 0, 0, 0, -1,
                  FooterFields(new_header_fields, gdOffset)),
           MarkerRec(outPos + MARKER_LEN + HEADER_LEN, 0,
                     create_marker(MARKER_EOS, 0, 0))>>
    /\ outPos' = outPos + MARKER_LEN + HEADER_LEN + MARKER_LEN
    /\ pc' = "transcoded"
    /\ UNCHANGED <<src, newsize, ovfSize, tmpOvf, tmpVmdk, sectors, newGTs,
                   gts, gtIdx, inPtr, newGrainDirectory, ova>>

----------------------------------------------------------------------------
(* OVAFile.write, after the transcode *)

\* lines 453-457: the OVF and the transcoded VMDK are added to the archive
AddMembers ==
    /\ pc = "transcoded"
    /\ ova' = <<[name |-> "ovf", fileSize |-> ovfSize],
                [name |-> "drive.vmdk", bytes |-> outPos]>>
    /\ pc' = "archived"
    /\ UNCHANGED <<src, newsize, ovfSize, tmpOvf, tmpVmdk, transcoderVars>>

\* lines 459-460: the temporary files are unlinked
UnlinkTemps ==
    /\ pc = "archived"
    /\ tmpOvf' = FALSE
    /\ tmpVmdk' = FALSE
    /\ pc' = "done"
    /\ UNCHANGED <<src, newsize, ovfSize, transcoderVars, ova>>

Next ==
    \/ GenerateOvf
    \/ WriteOvfTemp
    \/ OpenStreams
    \/ ParseHeader
    \/ LoadTables
    \/ WritePrologue
    \/ SkipEmptyGT
    \/ ProcessGT
    \/ ProcessGTMisaligned
    \/ WriteGD
    \/ WriteGDMisaligned
    \/ WriteFooter
    \/ AddMembers
    \/ UnlinkTemps

Spec == Init /\ [][Next]_vars

----------------------------------------------------------------------------
(* Properties *)

\* the source begins with the magic number of a sparse header
ValidMagic == src.hdr.magicNumber = VMDK_MAGIC

\* stream_optimize_vmdk has returned
Transcoded == pc \in {"transcoded", "archived", "done"}

OutIdx == 1..Len(out)

\* the grain directory, the leading header and the footer header as they
\* are in the output file
EmittedGD == out[CHOOSE k \in OutIdx : out[k].kind = "gd"]

EmittedHeader == out[CHOOSE k \in OutIdx : out[k].kind = "header"]

EmittedFooter == out[CHOOSE k \in OutIdx : out[k].kind = "footer"]

\* the source grains that are present: grain table t is in the source
\* directory and its entry i is greater than 1
SrcPresent ==
    {ti \in (1..Len(src.gdes)) \X (1..src.hdr.numGTEsPerGT) :
        /\ src.gdes[ti[1]] # 0
        /\ SrcEntry(src, src.gdes[ti[1]], ti[2]) > 1}

\* C1: after a successful transcode, every present source grain (t, i) is
\* found through the emitted tables: entry t of the emitted directory is
\* the offset of a GT whose entry i is a non-zero sector offset g, a grain
\* marker with a non-zero size starts at byte g*512, and its payload
\* decompresses to the source bytes stored at the source GTE.
C1_LosslessData ==
    Transcoded =>
      \A ti \in SrcPresent :
        LET gte == SrcEntry(src, src.gdes[ti[1]], ti[2])
            gde == EmittedGD.body[ti[1]]
        IN  /\ gde # 0
            /\ \E k \in OutIdx :
                 /\ out[k].kind = "gt"
                 /\ out[k].pos = gde * SECTOR_SIZE
                 /\ LET g == out[k].body[ti[2]] IN
                      /\ g # 0
                      /\ \E m \in OutIdx :
                           /\ out[m].kind = "grain"
                           /\ out[m].pos = g * SECTOR_SIZE
                           /\ out[m].size # 0
                           /\ Decompress(out[m].body) = src.grains[gte]

\* a successful transcode of a source holding a grain of each content, in
\* two different grain tables
C1_Witness ==
    /\ Transcoded
    /\ \E a, b \in SrcPresent :
         /\ a[1] # b[1]
         /\ src.grains[SrcEntry(src, src.gdes[a[1]], a[2])] = "A"
         /\ src.grains[SrcEntry(src, src.gdes[b[1]], b[2])] = "B"

\* C2 (stated for sources with a valid magic number): no transcode succeeds with an output capacity below the capacity of
\* the source (a smaller target fails with ResizeTooSmall).
C2_ResizeTooSmall ==
    Transcoded /\ ValidMagic => EmittedHeader.body.capacity >= src.hdr.capacity

\* C3: a source whose magicNumber is not 0x564D444B is never transcoded:
\* the run fails with BadMagic.
C3_BadMagic ==
    Transcoded => src.hdr.magicNumber = VMDK_MAGIC

\* C4 (stated for sources with a valid magic number): after a successful transcode the emitted grain directory has
\* ceil(capacity_new / (grainSize * numGTEsPerGT)) entries, capacity_new
\* being the capacity of the output header, and the entries beyond the
\* source's grain tables are zero.
C4_DirectoryLength ==
    Transcoded /\ ValidMagic =>
      /\ Len(EmittedGD.body) =
           CeilDiv(EmittedHeader.body.capacity, SectorsInGT(EmittedHeader.body))
      /\ \A t \in 1..Len(EmittedGD.body) :
           t > Len(src.gdes) => EmittedGD.body[t] = 0

\* C5: after a successful transcode the gdOffset of the footer header is the
\* sector offset at which the grain directory begins, right after the GD
\* marker, and every other field of the footer header equals the field of
\* the leading header.
C5_FooterHeader ==
    Transcoded =>
      /\ EmittedFooter.body.gdOffset * SECTOR_SIZE = EmittedGD.pos
      /\ \E k \in OutIdx :
           /\ out[k].kind = "marker"
           /\ out[k].type = MARKER_GD
           /\ out[k].pos + out[k].len = EmittedGD.pos
      /\ \A f \in DOMAIN EmittedHeader.body \ {"gdOffset"} :
           EmittedFooter.body[f] = EmittedHeader.body[f]

\* a successful transcode that wrote grains, whose footer gdOffset differs
\* from the gdOffset of the leading header
C5_Witness ==
    /\ Transcoded
    /\ \E k \in OutIdx : out[k].kind = "grain"
    /\ EmittedFooter.body.gdOffset # EmittedHeader.body.gdOffset

\* C6 (stated for sources with a valid magic number): the size attribute of References/File in the archived OVF is the
\* byte size of the transcoded VMDK stored as the archive's VMDK member.
C6_OvfFileSize ==
    pc \in {"archived", "done"} /\ ValidMagic => ova[1].fileSize = ova[2].bytes

\* C7 (stated for sources with a valid magic number): when OVAFile.write has ended, with success or with an error, the
\* temporary OVF file and the temporary VMDK file are gone.
C7_TempFilesRemoved ==
    pc \in {"done", "failed"} /\ ValidMagic => ~tmpOvf /\ ~tmpVmdk

\* C8 (stated for sources with a valid magic number): a source grain table whose directory entry is 0 is loaded as an
\* all-zero table, nothing is written for it (no grain marker, no GT
\* marker, no GT), and its entry of the new grain directory is 0.
C8_AbsentGT ==
    \A t \in 1..Len(src.gdes) :
      src.gdes[t] = 0 /\ ValidMagic =>
        /\ pc = "prologue" => gts[t] = emptyGT(src.hdr)
        /\ \A k \in OutIdx : out[k].t # t
        /\ t <= Len(newGrainDirectory) => newGrainDirectory[t] = 0

\* C9 (stated for sources with a valid magic number): every marker (grain marker, GT, GD, footer and EOS marker) is
\* written at an output position that is a multiple of 512, in every run,
\* the runs that abort included.
C9_MarkersAligned ==
    \A k \in OutIdx : IsMarker(out[k]) /\ ValidMagic => out[k].pos % SECTOR_SIZE = 0

\* C10: every grain marker written for entry i of source grain table t
\* carries lba = (t * numGTEsPerGT + i) * grainSize (t and i counted from
\* 0), whatever precedes it.
C10_LbaCorrect ==
    \A k \in OutIdx :
      out[k].kind = "grain" =>
        out[k].val = ((out[k].t - 1) * src.hdr.numGTEsPerGT + (out[k].i - 1))
                        * src.hdr.grainSize

\* a grain marker written for the last entry of the second grain table,
\* after a first grain table skipped as a whole, a present entry and a run
\* of absent entries
C10_Witness ==
    /\ Len(newGrainDirectory) >= 2
    /\ newGrainDirectory[1] = 0
    /\ src.gdes[1] # 0
    /\ \E k, m \in OutIdx :
         /\ out[k].kind = "grain" /\ out[k].t = 2 /\ out[k].i = 1
         /\ out[m].kind = "grain" /\ out[m].t = 2
         /\ out[m].i = src.hdr.numGTEsPerGT /\ out[m].i > 2
         /\ out[k].size # out[m].size

\* the writes that follow the grain directory written at out[k], in order:
\* at most the footer marker, the footer header and the EOS marker
FooterOrder(k) ==
    \A j \in (k + 1)..Len(out) :
      /\ j - k <= 3
      /\ j - k = 1 => out[j].kind = "marker" /\ out[j].type = MARKER_FOOTER
      /\ j - k = 2 => out[j].kind = "footer"
      /\ j - k = 3 => out[j].kind = "marker" /\ out[j].type = MARKER_EOS

\* C11: in the output, at any time, every non-zero entry of an emitted
\* grain table is the sector offset of a grain marker written before the
\* table and is smaller than the table's own sector offset; every non-zero
\* entry of the emitted grain directory is the sector offset of a grain
\* table written before it and is smaller than the directory's own sector
\* offset; and what follows the directory is the footer marker, the footer
\* header and the EOS marker, in that order, all three once the transcode
\* has succeeded.
C11_OutputOrdering ==
    \A k \in OutIdx :
      /\ out[k].kind = "gt" =>
           \A i \in 1..Len(out[k].body) :
             out[k].body[i] # 0 =>
               /\ out[k].body[i] < out[k].pos \div SECTOR_SIZE
               /\ \E m \in 1..(k - 1) :
                    /\ out[m].kind = "grain"
                    /\ out[m].pos = out[k].body[i] * SECTOR_SIZE
      /\ out[k].kind = "gd" =>
           /\ \A t \in 1..Len(out[k].body) :
                out[k].body[t] # 0 =>
                  /\ out[k].body[t] < out[k].pos \div SECTOR_SIZE
                  /\ \E m \in 1..(k - 1) :
                       /\ out[m].kind = "gt"
                       /\ out[m].pos = out[k].body[t] * SECTOR_SIZE
           /\ FooterOrder(k)
           /\ Transcoded => Len(out) = k + 3

\* a successful transcode whose directory has two non-zero entries and
\* one of whose grain tables has two non-zero entries
C11_Witness ==
    /\ Transcoded
    /\ Cardinality({t \in 1..Len(EmittedGD.body) : EmittedGD.body[t] # 0}) >= 2
    /\ \E k \in OutIdx :
         /\ out[k].kind = "gt"
         /\ Cardinality({i \in 1..Len(out[k].body) : out[k].body[i] # 0}) >= 2

====
